---- MODULE Spec2Model ----
(***************************************************************************)
(* Model of transaction-categorization.py: one run of main(), a linear     *)
(* pipeline  existence check -> load_and_preprocess_data ->                *)
(* train_test_split -> vectorize_text -> train_model -> evaluate_model ->  *)
(* joblib.dump.  An uncaught exception in any call ends the run.           *)
(*                                                                         *)
(* A spreadsheet is a sequence of rows; a cell is a record [kind, val]:    *)
(* kind "str" with val the sequence of its words, kind "num" for a numeric *)
(* cell, kind "nan" for an empty cell.  The sheet has the columns          *)
(* description and category (when present) and one further column, other.  *)
(* TF-IDF weights are real numbers; a feature vector is modelled by its    *)
(* term counts over the fitted vocabulary, which has the same dimensions   *)
(* and the same zero entries.                                              *)
(***************************************************************************)
EXTENDS Integers, Sequences, FiniteSets

VARIABLES
    pc,          \* position of main(): the next statement to run
    exists,      \* os.path.exists(args.data)
    readable,    \* pd.read_excel can parse the file
    columns,     \* the column names of the sheet
    raw,         \* the rows of the sheet, as pd.read_excel returns them
    df,          \* the frame returned by load_and_preprocess_data
    train,       \* rows of the training partition
    test,        \* rows of the test partition
    vectorizer,  \* the TfidfVectorizer: [fitted, vocabulary]
    X_train,     \* feature vectors of the training partition
    X_test,      \* feature vectors of the test partition
    model,       \* the MultinomialNB: [fitted, classes]
    artifact,    \* the file at args.save_model
    err,         \* the uncaught exception that ended the run, or "none"
    stdout,      \* the messages printed by main() and evaluate_model()
    calls        \* the pipeline calls made so far, in order

vars == <<pc, exists, readable, columns, raw, df, train, test, vectorizer,
          X_train, X_test, model, artifact, err, stdout, calls>>

----------------------------------------------------------------------------
(* Bounds of the model *)

MaxRows == 2

----------------------------------------------------------------------------
(* Cells and rows *)

NaN == [kind |-> "nan", val |-> <<>>]
Num == [kind |-> "num", val |-> <<>>]
Str(ws) == [kind |-> "str", val |-> ws]

Descriptions == {NaN, Num, Str(<<"Gas">>), Str(<<"gas">>), Str(<<"the">>),
                 Str(<<"the", "cafe">>)}
Categories == {NaN, Str(<<"Food">>), Str(<<"food">>)}
Others == {1, 2}

AllColumns == {"description", "category", "other"}

\* The rows a sheet with the columns cols can hold; a column the sheet lacks
\* has no cells, which the row records as NaN.
RowsOf(cols) ==
    [description : IF "description" \in cols THEN Descriptions ELSE {NaN},
     category    : IF "category" \in cols THEN Categories ELSE {NaN},
     other       : Others]

SeqsUpTo(S, n) == UNION {[1..k -> S] : k \in 0..n}

\* pd.read_excel gives every row its position as index label.
Indexed(rows) ==
    [i \in DOMAIN rows |-> [idx |-> i, description |-> rows[i].description,
                            category |-> rows[i].category, other |-> rows[i].other]]

Range(s) == {s[i] : i \in DOMAIN s}

----------------------------------------------------------------------------
(* load_and_preprocess_data *)

\* DataFrame.dropna(subset=['description', 'category']): keeps the rows in
\* which neither cell is empty.
dropna(rows) ==
    SelectSeq(rows, LAMBDA r : r.description.kind # "nan" /\ r.category.kind # "nan")

\* str.lower() on one word.
Lower(w) ==
    CASE w = "Gas"  -> "gas"
      [] w = "Food" -> "food"
      [] OTHER      -> w

\* Series.str.lower() on one cell: a text cell is lowercased word by word, a
\* cell that is not text becomes NaN.
str_lower(c) ==
    IF c.kind = "str" THEN Str([i \in DOMAIN c.val |-> Lower(c.val[i])]) ELSE NaN

\* The .str accessor refuses a column that holds no text: a column read with a
\* numeric dtype (no text cell in the sheet), or one whose remaining cells are
\* all numbers.  An empty column of object dtype is accepted.
StrAccessorOk(rows, sheet) ==
    IF rows = <<>>
    THEN sheet = <<>> \/ \E i \in DOMAIN sheet : sheet[i].description.kind = "str"
    ELSE \E i \in DOMAIN rows : rows[i].description.kind = "str"

\* df['description'] = df['description'].str.lower(); the other columns are
\* left as they are.
lower_description(rows) ==
    [i \in DOMAIN rows |-> [rows[i] EXCEPT !.description = str_lower(@)]]

\* Two rows hold the same values in every column (the index is no column).
SameRow(r, s) ==
    /\ r.description = s.description
    /\ r.category = s.category
    /\ r.other = s.other

\* Mutant: the result of drop_duplicates() is not assigned back.
drop_duplicates_unassigned(rows) == rows

\* DataFrame.drop_duplicates(): keeps the first of the rows that agree in
\* every column.
drop_duplicates(rows) ==
    SelectSeq(rows, LAMBDA r :
        \A j \in DOMAIN rows : rows[j].idx < r.idx => ~SameRow(rows[j], r))

\* Mutant: the duplicates are removed before the descriptions are lowercased.
load_dedup_before_lower(canRead, cols, sheet) ==
    LET kept == dropna(Indexed(sheet)) IN
    IF ~canRead
    THEN [err |-> "ValueError", df |-> <<>>]
    ELSE IF ~({"description", "category"} \subseteq cols)
    THEN [err |-> "KeyError", df |-> <<>>]
    ELSE IF ~StrAccessorOk(drop_duplicates(kept), sheet)
    THEN [err |-> "AttributeError", df |-> <<>>]
    ELSE [err |-> "none", df |-> lower_description(drop_duplicates(kept))]

\* The outcome of load_and_preprocess_data on the sheet: the exception it
\* raises ("none" when it returns) and the frame it returns.
load_and_preprocess_data(canRead, cols, sheet) ==
    LET kept == dropna(Indexed(sheet)) IN
    IF ~canRead
    THEN [err |-> "ValueError", df |-> <<>>]
    ELSE IF ~({"description", "category"} \subseteq cols)
    THEN [err |-> "KeyError", df |-> <<>>]
    ELSE IF ~StrAccessorOk(kept, sheet)
    THEN [err |-> "AttributeError", df |-> <<>>]
    ELSE [err |-> "none", df |-> drop_duplicates(lower_description(kept))]

----------------------------------------------------------------------------
(* train_test_split(X, y, test_size=0.2, random_state=42) *)

\* test_size, in percent
TestPct == 20

\* n_test = ceil(test_size * n_samples), n_train = n_samples - n_test
NTest(n) == (n * TestPct + 99) \div 100
NTrain(n) == n - NTest(n)

\* The rows of frame whose index label is in S, in the frame's order.
RowsAt(frame, S) == SelectSeq(frame, LAMBDA r : r.idx \in S)

Labels(frame) == {frame[i].idx : i \in DOMAIN frame}

\* The test partitions the shuffle can produce: any n_test of the rows.  The
\* permutation drawn from seed 42 is one of them.
TestChoices(frame) ==
    {S \in SUBSET Labels(frame) : Cardinality(S) = NTest(Len(frame))}

\* Mutant: the model is trained on the whole frame.
TrainRows_whole_frame(frame, S) == frame

\* The training partition is what the test partition leaves.
TrainRows(frame, S) == RowsAt(frame, Labels(frame) \ S)

\* The split fails when the training partition would be empty.
SplitFails(frame) == NTrain(Len(frame)) = 0

----------------------------------------------------------------------------
(* vectorize_text: TfidfVectorizer(stop_words='english') *)

StopWords == {"the"}

\* The analyzer: lowercase, split into word tokens, drop the stop words.
\* (The token pattern keeps words of two or more characters; every word of
\* Descriptions is one.)
analyze(doc) ==
    SelectSeq([i \in DOMAIN doc.val |-> Lower(doc.val[i])],
              LAMBDA w : w \notin StopWords)

Docs(rows) == [i \in DOMAIN rows |-> rows[i].description]

\* A document that is not text (NaN) is refused by fit and by transform.
InvalidDocs(docs) == \E i \in DOMAIN docs : docs[i].kind # "str"

\* The vocabulary learned by fit: every token of every document.
fit_vocabulary(docs) ==
    UNION {Range(analyze(docs[i])) : i \in DOMAIN docs}

Count(t, ws) == Cardinality({i \in DOMAIN ws : ws[i] = t})

\* One vector per document, one dimension per vocabulary term; a token
\* outside the vocabulary is skipped.
Vectors(docs, vocabulary) ==
    [i \in DOMAIN docs |-> [t \in vocabulary |-> Count(t, analyze(docs[i]))]]

\* vectorizer.fit_transform(train_text): learns the vocabulary and returns the
\* training vectors; an empty vocabulary is an error.
fit_transform(docs) ==
    LET voc == fit_vocabulary(docs) IN
    IF InvalidDocs(docs) \/ voc = {}
    THEN [err |-> "ValueError", vocabulary |-> {}, X |-> <<>>]
    ELSE [err |-> "none", vocabulary |-> voc, X |-> Vectors(docs, voc)]

\* Mutant: transform refits, so the tokens of docs enter the vocabulary.
transform_refits(docs, vocabulary) ==
    IF InvalidDocs(docs)
    THEN [err |-> "ValueError", vocabulary |-> vocabulary, X |-> <<>>]
    ELSE [err |-> "none", vocabulary |-> vocabulary \cup fit_vocabulary(docs),
          X |-> Vectors(docs, vocabulary \cup fit_vocabulary(docs))]

\* vectorizer.transform(test_text): the vectors of docs over the fitted
\* vocabulary, and the vocabulary the vectorizer holds afterwards.
transform(docs, vocabulary) ==
    IF InvalidDocs(docs)
    THEN [err |-> "ValueError", vocabulary |-> vocabulary, X |-> <<>>]
    ELSE [err |-> "none", vocabulary |-> vocabulary, X |-> Vectors(docs, vocabulary)]

----------------------------------------------------------------------------
(* train_model: MultinomialNB().fit(X_train, y_train) *)

Targets(rows) == [i \in DOMAIN rows |-> rows[i].category]

\* fit checks only that X and y have the same number of samples; the classes
\* are the distinct labels of y, one class being accepted.
train_model(X, y) ==
    IF Len(X) # Len(y)
    THEN [err |-> "ValueError", fitted |-> FALSE, classes |-> {}]
    ELSE [err |-> "none", fitted |-> TRUE, classes |-> Range(y)]

----------------------------------------------------------------------------
(* main *)

NoVectorizer == [fitted |-> FALSE, vocabulary |-> {}]
NoModel == [fitted |-> FALSE, classes |-> {}]

\* The file at args.save_model: absent, left by an earlier run, or written by
\* this run.
NoArtifact == [kind |-> "none", model |-> NoModel, vectorizer |-> NoVectorizer]
OldArtifact == [kind |-> "old", model |-> NoModel, vectorizer |-> NoVectorizer]
Bundle(m, v) == [kind |-> "bundle", model |-> m, vectorizer |-> v]

\* The sheets a run can be given.
Sheets ==
    [exists : {FALSE}, readable : {FALSE}, columns : {AllColumns}, raw : {<<>>}]
    \cup [exists : {TRUE}, readable : {FALSE}, columns : {AllColumns}, raw : {<<>>}]
    \cup UNION {[exists : {TRUE}, readable : {TRUE}, columns : {cols},
                 raw : SeqsUpTo(RowsOf(cols), MaxRows)] :
                cols \in {AllColumns, AllColumns \ {"description"},
                          AllColumns \ {"category"}}}

Init ==
    /\ pc = "check"
    /\ \E s \in Sheets :
        /\ exists = s.exists
        /\ readable = s.readable
        /\ columns = s.columns
        /\ raw = s.raw
    /\ df = <<>>
    /\ train = <<>>
    /\ test = <<>>
    /\ vectorizer = NoVectorizer
    /\ X_train = <<>>
    /\ X_test = <<>>
    /\ model = NoModel
    /\ artifact \in {NoArtifact, OldArtifact}
    /\ err = "none"
    /\ stdout = <<>>
    /\ calls = <<>>

\* An uncaught exception ends the run; nothing else of main's state changes.
Raise(stage, e) ==
    /\ pc' = "failed"
    /\ err' = e
    /\ calls' = Append(calls, stage)

\* Mutant: the message is printed but the return is missing.
CheckExists_no_return ==
    /\ pc = "check"
    /\ pc' = "load"
    /\ stdout' = IF exists THEN stdout ELSE Append(stdout, "Data file does not exist")
    /\ UNCHANGED <<exists, readable, columns, raw, df, train, test, vectorizer,
                   X_train, X_test, model, artifact, err, calls>>

\* if not os.path.exists(args.data): print(...); return
CheckExists ==
    /\ pc = "check"
    /\ IF exists
       THEN pc' = "load" /\ stdout' = stdout
       ELSE pc' = "done" /\ stdout' = Append(stdout, "Data file does not exist")
    /\ UNCHANGED <<exists, readable, columns, raw, df, train, test, vectorizer,
                   X_train, X_test, model, artifact, err, calls>>

\* df = load_and_preprocess_data(args.data)
Load ==
    /\ pc = "load"
    /\ LET r == load_and_preprocess_data(readable, columns, raw) IN
       IF r.err # "none"
       THEN /\ Raise("load_and_preprocess_data", r.err)
            /\ stdout' = IF readable THEN Append(stdout, "Initial data preview")
                                     ELSE stdout
            /\ df' = df
       ELSE /\ pc' = "split"
            /\ df' = r.df
            /\ stdout' = Append(stdout, "Initial data preview")
            /\ calls' = Append(calls, "load_and_preprocess_data")
            /\ err' = err
    /\ UNCHANGED <<exists, readable, columns, raw, train, test, vectorizer,
                   X_train, X_test, model, artifact>>

\* X_train_text, X_test_text, y_train, y_test = train_test_split(X, y, ...)
Split ==
    /\ pc = "split"
    /\ IF SplitFails(df)
       THEN /\ Raise("train_test_split", "ValueError")
            /\ UNCHANGED <<train, test>>
       ELSE /\ \E S \in TestChoices(df) :
                /\ test' = RowsAt(df, S)
                /\ train' = TrainRows(df, S)
            /\ pc' = "fit"
            /\ calls' = Append(calls, "train_test_split")
            /\ err' = err
    /\ UNCHANGED <<exists, readable, columns, raw, df, vectorizer, X_train,
                   X_test, model, artifact, stdout>>

\* Mutant: the vectorizer is saved as soon as it is fitted.
Fit_saves_vectorizer ==
    /\ pc = "fit"
    /\ LET r == fit_transform(Docs(train)) IN
       IF r.err # "none"
       THEN /\ Raise("vectorize_text", r.err)
            /\ UNCHANGED <<vectorizer, X_train, artifact>>
       ELSE /\ pc' = "transform"
            /\ vectorizer' = [fitted |-> TRUE, vocabulary |-> r.vocabulary]
            /\ X_train' = r.X
            /\ artifact' = Bundle(NoModel, vectorizer')
            /\ calls' = Append(calls, "vectorize_text")
            /\ err' = err
    /\ UNCHANGED <<exists, readable, columns, raw, df, train, test, X_test,
                   model, stdout>>

\* vectorize_text: X_train = vectorizer.fit_transform(train_text)
Fit ==
    /\ pc = "fit"
    /\ LET r == fit_transform(Docs(train)) IN
       IF r.err # "none"
       THEN /\ Raise("vectorize_text", r.err)
            /\ UNCHANGED <<vectorizer, X_train>>
       ELSE /\ pc' = "transform"
            /\ vectorizer' = [fitted |-> TRUE, vocabulary |-> r.vocabulary]
            /\ X_train' = r.X
            /\ calls' = Append(calls, "vectorize_text")
            /\ err' = err
    /\ UNCHANGED <<exists, readable, columns, raw, df, train, test, X_test,
                   model, artifact, stdout>>

\* vectorize_text: X_test = vectorizer.transform(test_text); on an exception
\* main never receives the vectorizer or the training vectors.
Transform ==
    /\ pc = "transform"
    /\ LET r == transform(Docs(test), vectorizer.vocabulary) IN
       IF r.err # "none"
       THEN /\ pc' = "failed"
            /\ err' = r.err
            /\ vectorizer' = NoVectorizer
            /\ X_train' = <<>>
            /\ X_test' = X_test
       ELSE /\ pc' = "train"
            /\ vectorizer' = [vectorizer EXCEPT !.vocabulary = r.vocabulary]
            /\ X_test' = r.X
            /\ X_train' = X_train
            /\ err' = err
    /\ UNCHANGED <<exists, readable, columns, raw, df, train, test, model,
                   artifact, stdout, calls>>

\* Mutant: main goes from training straight to the dump.
Train_skips_evaluation ==
    /\ pc = "train"
    /\ pc' = "dump"
    /\ model' = [fitted |-> TRUE, classes |-> Range(Targets(train))]
    /\ calls' = Append(calls, "train_model")
    /\ UNCHANGED <<exists, readable, columns, raw, df, train, test, vectorizer,
                   X_train, X_test, artifact, stdout, err>>

\* model = train_model(X_train, y_train)
Train ==
    /\ pc = "train"
    /\ LET r == train_model(X_train, Targets(train)) IN
       IF r.err # "none"
       THEN /\ Raise("train_model", r.err)
            /\ model' = model
       ELSE /\ pc' = "evaluate"
            /\ model' = [fitted |-> TRUE, classes |-> r.classes]
            /\ calls' = Append(calls, "train_model")
            /\ err' = err
    /\ UNCHANGED <<exists, readable, columns, raw, df, train, test, vectorizer,
                   X_train, X_test, artifact, stdout>>

\* evaluate_model(model, X_test, y_test): predicts, scores and prints; the
\* model is not changed.
Evaluate ==
    /\ pc = "evaluate"
    /\ pc' = "dump"
    /\ stdout' = Append(stdout, "Model Evaluation")
    /\ calls' = Append(calls, "evaluate_model")
    /\ UNCHANGED <<exists, readable, columns, raw, df, train, test, vectorizer,
                   X_train, X_test, model, artifact, err>>

\* joblib.dump({'model': model, 'vectorizer': vectorizer}, args.save_model)
Dump ==
    /\ pc = "dump"
    /\ pc' = "done"
    /\ artifact' = Bundle(model, vectorizer)
    /\ stdout' = Append(stdout, "Trained model and vectorizer saved")
    /\ calls' = Append(calls, "joblib.dump")
    /\ UNCHANGED <<exists, readable, columns, raw, df, train, test, vectorizer,
                   X_train, X_test, model, err>>

Next ==
    \/ CheckExists
    \/ Load
    \/ Split
    \/ Fit
    \/ Transform
    \/ Train
    \/ Evaluate
    \/ Dump

Spec == Init /\ [][Next]_vars

----------------------------------------------------------------------------
(* Properties *)

Stages == <<"load_and_preprocess_data", "train_test_split", "vectorize_text",
            "train_model", "evaluate_model", "joblib.dump">>

\* The run is past a successful load_and_preprocess_data.
Loaded == err = "none" /\ calls # <<>>

\* The run is past a successful train_test_split.
SplitDone == err = "none" /\ Len(calls) >= 2

\* The run is past a successful vectorize_text.
Vectorized == pc \in {"train", "evaluate", "dump"} \/ (pc = "done" /\ exists)

Times(stage) == Cardinality({i \in DOMAIN calls : calls[i] = stage})

\* C1: a step that ends the run in failure, or that returns early, leaves the
\* file at the artifact path as it was; the only step that changes the file
\* is the dump, taken after all five stages before it have succeeded.
C1_FailedRunLeavesArtifact ==
    [][/\ (pc' = "failed" \/ (pc' = "done" /\ ~exists)) => artifact' = artifact
       /\ artifact' # artifact =>
            /\ err = "none" /\ err' = "none"
            /\ calls = SubSeq(Stages, 1, 5)]_vars

C1_Witness ==
    /\ pc = "failed"
    /\ artifact = OldArtifact
    /\ calls = SubSeq(Stages, 1, 3)

\* C2: when the input path does not exist the run prints the error and
\* returns: no pipeline call is made and no artifact is written.
C2_MissingInputStopsRun ==
    ~exists =>
        /\ pc \in {"check", "done"}
        /\ calls = <<>>
        /\ err = "none"
        /\ artifact.kind # "bundle"
        /\ pc = "done" => stdout = <<"Data file does not exist">>

C2_Witness == ~exists /\ pc = "done" /\ artifact = NoArtifact

\* The tokens of the descriptions of rows that survive the stop-word list.
SurvivingTokens(rows) ==
    UNION {{Lower(rows[i].description.val[j]) : j \in DOMAIN rows[i].description.val}
           \ StopWords : i \in DOMAIN rows}

\* C3: from the fit on, through the transform of the test descriptions and
\* to the end of the run, the vocabulary is exactly the set of surviving
\* tokens of the training partition, and every training and test vector has
\* exactly the vocabulary's dimensions; vectorize_text fails only on a
\* description that is not text or on an empty training vocabulary, never on
\* a test token outside the vocabulary.
C3_VocabularyFixedAtFit ==
    /\ (pc = "transform" \/ Vectorized) =>
          /\ vectorizer.fitted
          /\ vectorizer.vocabulary = SurvivingTokens(train)
          /\ Len(X_train) = Len(train)
          /\ \A i \in DOMAIN X_train : DOMAIN X_train[i] = vectorizer.vocabulary
    /\ Vectorized =>
          /\ Len(X_test) = Len(test)
          /\ \A i \in DOMAIN X_test : DOMAIN X_test[i] = vectorizer.vocabulary
    /\ (pc = "failed" /\ calls = SubSeq(Stages, 1, 3)) =>
          \/ InvalidDocs(Docs(train))
          \/ InvalidDocs(Docs(test))
          \/ SurvivingTokens(train) = {}

\* A test description holds a token that the training partition lacks.
C3_Witness ==
    /\ pc = "train"
    /\ SurvivingTokens(test) \ SurvivingTokens(train) # {}

\* C4: after the split every row of the cleaned frame is in exactly one of
\* the two partitions, and train_test_split has been called once; it is never
\* called twice.
C4_SplitPartitions ==
    /\ Times("train_test_split") <= 1
    /\ SplitDone =>
          /\ Times("train_test_split") = 1
          /\ Range(train) \cup Range(test) = Range(df)
          /\ Range(train) \cap Range(test) = {}
          /\ Len(train) + Len(test) = Len(df)
          /\ Len(train) = Cardinality(Range(train))
          /\ Len(test) = Cardinality(Range(test))

C4_Witness == pc = "fit" /\ Len(df) = 2 /\ Len(train) = 1 /\ Len(test) = 1

\* The distinct categories of the cleaned frame.
DistinctCategories(frame) == Range(Targets(frame))

\* C5: when the cleaned frame holds a single distinct category, the
\* classifier is never trained and no artifact is written.
C5_SingleCategoryFailsTraining ==
    (Loaded /\ Cardinality(DistinctCategories(df)) = 1) =>
        /\ ~model.fitted
        /\ artifact.kind # "bundle"

\* No row of the sheet has both cells.
ZeroUsable == dropna(Indexed(raw)) = <<>>

MissingColumn == ~({"description", "category"} \subseteq columns)

\* C6: when a column is absent or no usable record remains, the run fails in
\* load_and_preprocess_data: train_test_split, the vectorizer fit and the
\* training are never called.
C6_UnusableDataFailsInPreparation ==
    (exists /\ readable /\ (MissingColumn \/ ZeroUsable)) =>
        /\ pc \in {"check", "load", "failed"}
        /\ calls \in {<<>>, <<"load_and_preprocess_data">>}

\* C7 as stated: the cleaned frame holds no two rows with the same
\* description and category.
C7_NoTwoRowsWithSamePair ==
    Loaded =>
        \A i, j \in DOMAIN df :
            (df[i].description = df[j].description /\ df[i].category = df[j].category)
                => i = j

\* The rows that enter the duplicate removal: the usable rows, descriptions
\* lowercased.
Normalized == lower_description(dropna(Indexed(raw)))

\* C7, amended: the cleaned frame holds no two rows that agree in every
\* column, and every usable row of the sheet, however many times it occurs,
\* is represented by exactly one row of the cleaned frame.
C7_NoTwoRowsAgreeInEveryColumn ==
    Loaded =>
        /\ \A i, j \in DOMAIN df : SameRow(df[i], df[j]) => i = j
        /\ \A k \in DOMAIN Normalized :
              Cardinality({i \in DOMAIN df : SameRow(df[i], Normalized[k])}) = 1
        /\ \A i \in DOMAIN df : df[i] \in Range(Normalized)

C7_Witness ==
    /\ pc = "split"
    /\ Len(Normalized) = 2
    /\ Len(df) = 1

\* C8: every row of the cleaned frame has a description and a category.
C8_NoMissingFieldInCleanedSet ==
    Loaded =>
        \A i \in DOMAIN df :
            df[i].description.kind # "nan" /\ df[i].category.kind # "nan"

Prefix(n) == SubSeq(Stages, 1, n)

\* The number of pipeline calls a run without failure has made at pc.
Position ==
    CASE pc = "load" -> 0
      [] pc = "split" -> 1
      [] pc = "fit" -> 2
      [] pc = "transform" -> 3
      [] pc = "train" -> 3
      [] pc = "evaluate" -> 4
      [] pc = "dump" -> 5
      [] OTHER -> 6

\* C9: in a run that passed the existence check and has not failed, the calls
\* made so far are the first calls of the fixed order, each made once; the
\* run is done after all six, and the artifact is then the one write of the
\* trained classifier with the fitted vectorizer, made after evaluation.
C9_StagesOnceInOrder ==
    /\ (exists /\ err = "none" /\ pc # "check") => calls = Prefix(Position)
    /\ artifact.kind = "bundle" =>
          /\ calls = Stages
          /\ pc = "done"
          /\ artifact = Bundle(model, vectorizer)
          /\ model.fitted /\ vectorizer.fitted
          /\ model.classes = DistinctCategories(train)

C9_Witness == pc = "done" /\ exists /\ artifact.kind = "bundle" /\ calls = Stages

\* The usable rows of the sheet, as read.
Usable == dropna(Indexed(raw))

\* Two cells hold the same text up to letter case.
SameIgnoringCase(c, d) ==
    /\ c.kind = "str" /\ d.kind = "str"
    /\ Len(c.val) = Len(d.val)
    /\ \A k \in DOMAIN c.val : Lower(c.val[k]) = Lower(d.val[k])

\* C10: of two usable rows that agree in every column but for the letter case
\* of the description, the later one is not in the cleaned frame; a usable
\* row is removed only for an earlier row with exactly its category (letter
\* case included); and every kept row has the category it was read with.
C10_DedupAfterLowercase ==
    Loaded =>
        /\ \A i, j \in DOMAIN Usable :
              (/\ i < j
               /\ SameIgnoringCase(Usable[i].description, Usable[j].description)
               /\ Usable[i].category = Usable[j].category
               /\ Usable[i].other = Usable[j].other)
                 => Usable[j].idx \notin Labels(df)
        /\ \A j \in DOMAIN Usable :
              Usable[j].idx \notin Labels(df) =>
                 \E i \in DOMAIN Usable :
                    /\ i < j
                    /\ Usable[i].category = Usable[j].category
                    /\ Usable[i].other = Usable[j].other
        /\ \A i \in DOMAIN df : df[i].category = raw[df[i].idx].category

\* Two rows that differ in the letter case of the description alone.
C10_Witness ==
    /\ pc = "split"
    /\ Len(Usable) = 2
    /\ Usable[1].description # Usable[2].description
    /\ SameIgnoringCase(Usable[1].description, Usable[2].description)
    /\ Len(df) = 1

\* Two rows that differ in the letter case of the category alone are kept.
C10_CategoryCaseKept ==
    /\ pc = "split"
    /\ Len(Usable) = 2
    /\ Usable[1].description = Usable[2].description
    /\ Usable[1].other = Usable[2].other
    /\ Usable[1].category # Usable[2].category
    /\ Len(df) = 2

====
